---- MODULE Spec2Model ----
(***************************************************************************)
(* jobArena backend: the Express handlers of src/server.js over the        *)
(* Mongoose models (src/models/Job.js), as a state machine.                *)
(*                                                                         *)
(* JSON objects are functions over the names of the fields they carry: a   *)
(* field is present iff its name is in the DOMAIN, and reading a field an  *)
(* object does not carry gives JavaScript's undefined (falsy).             *)
(***************************************************************************)
EXTENDS Integers, Sequences, FiniteSets, TLC

VARIABLES users, reg, jobs, resp

vars == <<users, reg, jobs, resp>>

(***************************************************************************)
(* Bounds of the model.                                                    *)
(***************************************************************************)
MaxReq == 2
MaxJobs == 2
MaxConfigs == 2
MaxTopics == 2
MaxPool == 3
MaxQuota == 2

(***************************************************************************)
(* Program constants.                                                      *)
(***************************************************************************)
DefaultDuration == 45
DefaultPassingScore == 60

Has(o, f) == f \in DOMAIN o

(***************************************************************************)
(* POST /api/auth/register, server.js 48-83.  The handler awaits twice     *)
(* (User.findOne, user.save), so a request is two steps and requests for   *)
(* the same email interleave between them.                                 *)
(***************************************************************************)
Reqs == 1..MaxReq
Emails == {"a@x.io", "b@x.io"}
Roles == {"company", "candidate"}

IdleReq == [pc |-> "idle"]

\* mutant: the existence check never finds a user
EmailTakenNever(us, email) == FALSE

\* User.findOne({ email }) is not null
EmailTaken(us, email) == \E u \in us : u.email = email

\* The users collection rejects a second document with the same email
\* (email is a unique key of User): user.save() throws.
DuplicateKey(us, email) == \E u \in us : u.email = email

\* generateToken(user): the token identifies the user
generateToken(user) == user.id

\* Has a register request for this email already been answered 201?
Answered201(email) ==
    \E r \in Reqs : /\ reg[r].pc = "done"
                    /\ reg[r].email = email
                    /\ reg[r].status = 201

\* lines 50-56: the lookup; 400 when the email exists
RegisterLookup(r, email, role) ==
    /\ reg[r].pc = "idle"
    /\ reg' = [reg EXCEPT ![r] =
                 IF EmailTaken(users, email)
                 THEN [pc |-> "done", email |-> email, role |-> role,
                       status |-> 400, error |-> "Email already registered",
                       token |-> 0, created |-> FALSE,
                       after201 |-> Answered201(email)]
                 ELSE [pc |-> "save", email |-> email, role |-> role,
                       after201 |-> Answered201(email)]]
    /\ UNCHANGED <<users, jobs, resp>>

\* lines 58-82: new User, save, token, 201; a throw from save is caught: 500
RegisterSave(r) ==
    /\ reg[r].pc = "save"
    /\ LET email == reg[r].email
           user == [id |-> r, email |-> email, role |-> reg[r].role]
       IN IF DuplicateKey(users, email)
          THEN /\ reg' = [reg EXCEPT ![r] =
                            [pc |-> "done", email |-> email, role |-> reg[r].role,
                             status |-> 500, error |-> "Registration failed",
                             token |-> 0, created |-> FALSE,
                             after201 |-> reg[r].after201]]
               /\ UNCHANGED users
          ELSE /\ users' = users \cup {user}
               /\ reg' = [reg EXCEPT ![r] =
                            [pc |-> "done", email |-> email, role |-> reg[r].role,
                             status |-> 201, error |-> "",
                             token |-> generateToken(user), created |-> TRUE,
                             after201 |-> reg[r].after201]]
    /\ UNCHANGED <<jobs, resp>>

(***************************************************************************)
(* JavaScript values.                                                      *)
(***************************************************************************)
EmptyObj == [f \in {} |-> 0]

\* o.f is a truthy number / a truthy string
TruthyNum(o, f) == Has(o, f) /\ o[f] # 0
TruthyStr(o, f) == Has(o, f) /\ o[f] # ""

\* o.f || d, for a number field
NumOr(o, f, d) == IF TruthyNum(o, f) THEN o[f] ELSE d

Min(a, b) == IF a < b THEN a ELSE b

(***************************************************************************)
(* AVAILABLE_TOPICS, server.js 36-45: an object literal, so besides its 8  *)
(* own keys a lookup AVAILABLE_TOPICS[name] also finds what the object     *)
(* inherits from Object.prototype (functions and objects: truthy).         *)
(***************************************************************************)
AVAILABLE_TOPICS ==
    ("Mixture and Alligation" :> "MixtureAndAlligation") @@
    ("Profit and Loss" :> "ProfitAndLoss") @@
    ("Pipes and Cisterns" :> "PipesAndCistern") @@
    ("Age" :> "Age") @@
    ("Permutation and Combination" :> "PermutationAndCombination") @@
    ("Speed Time Distance" :> "SpeedTimeDistance") @@
    ("Simple Interest" :> "SimpleInterest") @@
    ("Calendars" :> "Calendar")

\* Object.keys(AVAILABLE_TOPICS), line 152
KnownTopics == DOMAIN AVAILABLE_TOPICS

ObjectPrototypeKeys ==
    {"constructor", "toString", "toLocaleString", "valueOf", "hasOwnProperty",
     "isPrototypeOf", "propertyIsEnumerable", "__proto__"}

\* AVAILABLE_TOPICS[topic] is truthy (line 175 negates it)
TopicLookup(topic) == topic \in KnownTopics \/ topic \in ObjectPrototypeKeys

\* AVAILABLE_TOPICS[topic] as line 233 puts it into the URL
Endpoint(topic) ==
    IF topic \in KnownTopics THEN AVAILABLE_TOPICS[topic]
    ELSE IF topic \in ObjectPrototypeKeys THEN "[inherited]"
    ELSE "undefined"

(***************************************************************************)
(* auth and checkRole (middleware/auth.js): the actor is a stored user     *)
(* whose role is one of the allowed roles.                                 *)
(***************************************************************************)
checkRole(u, allowed) == u.role \in allowed

(***************************************************************************)
(* The jobs collection: a sequence of job documents in insertion order,    *)
(* each [company, quests].  A quest entry is [doc, sent]: doc is the       *)
(* subdocument Mongoose stores and hands back, the only part a handler     *)
(* reads; sent is a history field, the $push operand as line 196 sent it.  *)
(***************************************************************************)
NumQuests(js) ==
    LET RECURSIVE Sum(_)
        Sum(i) == IF i = 0 THEN 0 ELSE Len(js[i].quests) + Sum(i - 1)
    IN Sum(Len(js))

AllQuests(js) ==
    UNION {{js[j].quests[i] : i \in 1..Len(js[j].quests)} : j \in 1..Len(js)}

(***************************************************************************)
(* POST /api/jobs, server.js 119-130.  new Job(...).save() validates the   *)
(* required fields of jobSchema; a validation error is caught: 500.  The   *)
(* bodies carry no quests of their own (they would be cast to questSchema  *)
(* like the pushed ones).                                                  *)
(***************************************************************************)
CreateJob(u, valid) ==
    /\ u \in users
    /\ checkRole(u, {"company", "admin"})
    /\ Len(jobs) < MaxJobs
    /\ IF valid
       THEN /\ jobs' = Append(jobs, [company |-> u.id, quests |-> <<>>])
            /\ resp' = [op |-> "createJob", status |-> 201]
       ELSE /\ UNCHANGED jobs
            /\ resp' = [op |-> "createJob", status |-> 500]
    /\ UNCHANGED <<users, reg>>

(***************************************************************************)
(* questSchema, Job.js 3-46, with Mongoose's default options: the schema   *)
(* is strict, so casting an object to a quest subdocument keeps only the   *)
(* paths the schema declares and fills the declared defaults.  testId,     *)
(* company, name, isActive and createdAt are not paths of questSchema.     *)
(***************************************************************************)
QuestSchemaPaths ==
    {"type", "title", "description", "difficulty", "duration", "questions",
     "passingScore", "enabled", "topics", "questionsPerTopic"}

QuestDefault(f) ==
    CASE f = "difficulty" -> "Medium"
      [] f = "enabled" -> TRUE
      [] f = "questionsPerTopic" -> 5

QuestDefaulted == {"difficulty", "enabled", "questionsPerTopic"}

castQuest(cfg) ==
    [f \in (DOMAIN cfg \cap QuestSchemaPaths) \cup QuestDefaulted |->
        IF Has(cfg, f) THEN cfg[f] ELSE QuestDefault(f)]

(***************************************************************************)
(* POST /api/company/tests, server.js 156-205.                             *)
(***************************************************************************)
\* line 169
MissingRequired(body) ==
    \/ ~TruthyStr(body, "testId")
    \/ ~TruthyStr(body, "name")
    \/ ~Has(body, "topics")
    \/ ~TruthyNum(body, "questionsPerTopic")

\* lines 174-178: the first topic the lookup does not find, 0 when none
InvalidTopicAt(topics) ==
    LET bad == {i \in 1..Len(topics) : ~TopicLookup(topics[i])}
    IN IF bad = {} THEN 0 ELSE CHOOSE i \in bad : \A k \in bad : i <= k

\* lines 181-192 (description and createdAt left out)
testConfig(u, body) ==
    [testId |-> body.testId, company |-> u.id, name |-> body.name,
     duration |-> NumOr(body, "duration", DefaultDuration),
     topics |-> body.topics,
     questionsPerTopic |-> body.questionsPerTopic,
     passingScore |-> NumOr(body, "passingScore", DefaultPassingScore),
     isActive |-> ~(Has(body, "isActive") /\ body.isActive = FALSE)]

\* Job.findOneAndUpdate({ company }, { $push: { quests } }), lines 194-198:
\* the first job of the company gets the entry, cast to questSchema; no job
\* of the company, no change.
PushQuest(js, company, cfg) ==
    LET mine == {j \in 1..Len(js) : js[j].company = company}
    IN IF mine = {} THEN js
       ELSE LET j == CHOOSE j \in mine : \A k \in mine : j <= k
            IN [js EXCEPT ![j].quests =
                  Append(@, [doc |-> castQuest(cfg), sent |-> cfg])]

CreateTestConfig(u, body) ==
    /\ u \in users
    /\ checkRole(u, {"company", "admin"})
    /\ NumQuests(jobs) < MaxConfigs
    /\ IF MissingRequired(body)
       THEN /\ resp' = [op |-> "createTestConfig", status |-> 400,
                        error |-> "Missing required fields", body |-> body]
            /\ UNCHANGED jobs
       ELSE IF InvalidTopicAt(body.topics) # 0
       THEN /\ resp' = [op |-> "createTestConfig", status |-> 400,
                        error |-> "Invalid topic",
                        topic |-> body.topics[InvalidTopicAt(body.topics)],
                        body |-> body]
            /\ UNCHANGED jobs
       ELSE /\ jobs' = PushQuest(jobs, u.id, testConfig(u, body))
            /\ resp' = [op |-> "createTestConfig", status |-> 200,
                        body |-> body, cfg |-> testConfig(u, body)]
    /\ UNCHANGED <<users, reg>>

\* Request bodies: every field is optional
Opt(f, S) == {f :> v : v \in S} \cup {EmptyObj}

SeqsUpTo(S, n) == UNION {[1..k -> S] : k \in 0..n}

(***************************************************************************)
(* The question source.  A fetch fails (axios throws) or answers with the  *)
(* pool of the topic: an array of question objects, or one object.         *)
(* Upstream objects carry any fields: here an answer key, an explanation,  *)
(* a topic of their own; some lack options, question or id.                *)
(***************************************************************************)
Question(i) ==
    CASE i % 4 = 1 -> [id |-> i, question |-> "What?", options |-> <<"a", "b">>,
                       answer |-> "a"]
      [] i % 4 = 2 -> [id |-> i, question |-> "Why?", answer |-> "b",
                       explanation |-> "because"]
      [] i % 4 = 3 -> [id |-> i, options |-> <<"c">>, topic |-> "Other"]
      [] OTHER -> [question |-> "Which?", options |-> <<"d", "e">>, key |-> i]

ArrayPool(n) == [isArray |-> TRUE, items |-> [i \in 1..n |-> Question(i)]]

ObjectPool == [isArray |-> FALSE, item |-> Question(1)]

Pools == {ArrayPool(n) : n \in 0..MaxPool} \cup {ObjectPool}

\* line 235
questions(data) == IF data.isArray THEN data.items ELSE <<data.item>>

\* What questions.sort(() => Math.random() - 0.5) can leave: any order of
\* the same elements, given as the permutation of their positions.
Orders(n) == {p \in [1..n -> 1..n] : \A i, j \in 1..n : p[i] = p[j] => i = j}

FetchFailed == [ok |-> FALSE]

Outcomes ==
    {FetchFailed} \cup
    UNION {{[ok |-> TRUE, data |-> d, order |-> o] : o \in Orders(Len(questions(d)))}
             : d \in Pools}

(***************************************************************************)
(* POST /api/tests/:testId/start, server.js 208-277.                       *)
(***************************************************************************)
\* q.testId === testId on a quest subdocument
HasTestId(entry, testId) == Has(entry.doc, "testId") /\ entry.doc.testId = testId

\* Job.findOne({ 'quests.testId': testId }), line 211: the first job with
\* such an entry, 0 when there is none
FindJob(js, testId) ==
    LET hit == {j \in 1..Len(js) :
                  \E i \in 1..Len(js[j].quests) : HasTestId(js[j].quests[i], testId)}
    IN IF hit = {} THEN 0 ELSE CHOOSE j \in hit : \A k \in hit : j <= k

\* job.quests.find(q => q.testId === testId), line 217: 0 when undefined
FindQuest(job, testId) ==
    LET hit == {i \in 1..Len(job.quests) : HasTestId(job.quests[i], testId)}
    IN IF hit = {} THEN 0 ELSE CHOOSE i \in hit : \A k \in hit : i <= k

\* mutant: an inactive configuration is started like an active one
IsActiveIgnored(doc) == TRUE

\* testConfig.isActive is truthy, line 218
IsActive(doc) == Has(doc, "isActive") /\ doc.isActive

\* lines 240-245: { ...q, topic, options: q.options || [], question: q.question || '' }
Tag(q, topic) ==
    [f \in DOMAIN q \cup {"topic", "options", "question"} |->
        CASE f = "topic" -> topic
          [] f = "options" -> IF Has(q, "options") THEN q.options ELSE <<>>
          [] f = "question" -> IF TruthyStr(q, "question") THEN q.question ELSE ""
          [] OTHER -> q[f]]

\* mutant: one question more than the quota
SliceOneMore(s, n) == SubSeq(s, 1, Min(n + 1, Len(s)))

\* .slice(0, n), n >= 0
Slice(s, n) == SubSeq(s, 1, Min(n, Len(s)))

\* lines 237-245
selectedQuestions(out, doc, topic) ==
    LET qs == questions(out.data)
        shuffled == [i \in 1..Len(qs) |-> qs[out.order[i]]]
        sliced == Slice(shuffled, doc.questionsPerTopic)
    IN [i \in 1..Len(sliced) |-> Tag(sliced[i], topic)]

\* mutant: the question is forwarded as it is
PublicAll(q) == q

\* lines 264-269; JSON drops a field whose value is undefined
Public(q) ==
    [f \in {"question", "options", "topic"} \cup ({"id"} \cap DOMAIN q) |-> q[f]]

\* mutant: a failed fetch skips the topic and the loop goes on
FetchLoopSkip(doc, outs) ==
    LET RECURSIVE Loop(_, _, _)
        Loop(i, topics, total) ==
            IF i > Len(doc.topics)
            THEN [ok |-> TRUE, topics |-> topics, totalQuestions |-> total,
                  fetched |-> [k \in 1..Len(doc.topics) |-> Endpoint(doc.topics[k])]]
            ELSE IF ~outs[i].ok
            THEN Loop(i + 1, topics, total)
            ELSE LET sel == selectedQuestions(outs[i], doc, doc.topics[i])
                 IN Loop(i + 1,
                         Append(topics, [name |-> doc.topics[i], questions |-> sel]),
                         total + Len(sel))
    IN Loop(1, <<>>, 0)

\* lines 232-252: one fetch per topic, in order; the first failed fetch
\* throws out of the loop.  fetched lists the endpoints requested.
FetchLoop(doc, outs) ==
    LET RECURSIVE Loop(_, _, _)
        Loop(i, topics, total) ==
            IF i > Len(doc.topics)
            THEN [ok |-> TRUE, topics |-> topics, totalQuestions |-> total,
                  fetched |-> [k \in 1..Len(doc.topics) |-> Endpoint(doc.topics[k])]]
            ELSE IF ~outs[i].ok
            THEN [ok |-> FALSE,
                  fetched |-> [k \in 1..i |-> Endpoint(doc.topics[k])]]
            ELSE LET sel == selectedQuestions(outs[i], doc, doc.topics[i])
                 IN Loop(i + 1,
                         Append(topics, [name |-> doc.topics[i], questions |-> sel]),
                         total + Len(sel))
    IN Loop(1, <<>>, 0)

\* lines 257-272
SessionPayload(u, testId, doc, test) ==
    [op |-> "start", status |-> 200, testId |-> testId,
     sessionId |-> <<testId, u.id>>,
     duration |-> doc.duration,
     topics |-> [i \in 1..Len(test.topics) |->
                   [name |-> test.topics[i].name,
                    questions |-> [k \in 1..Len(test.topics[i].questions) |->
                                     Public(test.topics[i].questions[k])]]],
     totalQuestions |-> test.totalQuestions]

\* The whole handler.  outs[i] is what the i-th fetch of the request would
\* meet.  userId, fetched, offered and asked are history fields of the
\* response record: who asked, the endpoints requested, the outcomes the
\* question source had ready and the configuration the handler read.
StartSession(u, testId, outs) ==
    /\ u \in users
    /\ LET j == FindJob(jobs, testId)
           i == IF j = 0 THEN 0 ELSE FindQuest(jobs[j], testId)
       IN IF j = 0
          THEN resp' = [op |-> "start", status |-> 404, testId |-> testId,
                        userId |-> u.id,
                        error |-> "Test not found", fetched |-> <<>>,
                        offered |-> outs]
          ELSE IF i = 0 \/ ~IsActive(jobs[j].quests[i].doc)
          THEN resp' = [op |-> "start", status |-> 404, testId |-> testId,
                        userId |-> u.id,
                        error |-> "Test not found or inactive", fetched |-> <<>>,
                        offered |-> outs]
          ELSE LET doc == jobs[j].quests[i].doc
                   test == FetchLoop(doc, outs)
               IN IF test.ok
                  THEN resp' = SessionPayload(u, testId, doc, test) @@
                                 [userId |-> u.id,
                                  fetched |-> test.fetched, asked |-> doc,
                                  offered |-> outs]
                  ELSE resp' = [op |-> "start", status |-> 500, testId |-> testId,
                                userId |-> u.id, error |-> "Failed to start test",
                                fetched |-> test.fetched, asked |-> doc,
                                offered |-> outs]
    /\ UNCHANGED <<users, reg, jobs>>

NoResp == [op |-> "none"]

Req(f, S) == {f :> v : v \in S}

TestIds == {"t1", "t2"}

(***************************************************************************)
(* Spec: the whole API from an empty database.                             *)
(***************************************************************************)
Init ==
    /\ users = {}
    /\ reg = [r \in Reqs |-> IdleReq]
    /\ jobs = <<>>
    /\ resp = NoResp

Bodies ==
    {a @@ b @@ c @@ d @@ e :
        a \in Req("testId", TestIds), b \in Req("name", {"Aptitude"}),
        c \in Req("topics", {<<"Age", "Calendars">>, <<"Calendars">>}),
        d \in Req("questionsPerTopic", {MaxQuota}),
        e \in Opt("isActive", {FALSE})}

ReadyPool == [ok |-> TRUE, data |-> ArrayPool(MaxPool),
              order |-> [i \in 1..MaxPool |-> i]]

Upstreams == [1..MaxTopics -> {FetchFailed, ReadyPool}]

Next ==
    \/ \E r \in Reqs, email \in Emails, role \in Roles : RegisterLookup(r, email, role)
    \/ \E r \in Reqs : RegisterSave(r)
    \/ \E u \in users, valid \in BOOLEAN : CreateJob(u, valid)
    \/ \E u \in users, body \in Bodies : CreateTestConfig(u, body)
    \/ \E u \in users, t \in TestIds, outs \in Upstreams : StartSession(u, t, outs)

Spec == Init /\ [][Next]_vars

(***************************************************************************)
(* SpecRegister: the register requests alone, from an empty database.      *)
(***************************************************************************)
NextRegister ==
    \/ \E r \in Reqs, email \in Emails, role \in Roles : RegisterLookup(r, email, role)
    \/ \E r \in Reqs : RegisterSave(r)

SpecRegister == Init /\ [][NextRegister]_vars

(***************************************************************************)
(* SpecConfig: createTestConfig alone, from the state two registered       *)
(* companies reach after the first, or each, created a job.  The request   *)
(* bodies vary the required fields and the topic list, or the optional     *)
(* fields.                                                                 *)
(***************************************************************************)
Registered(r, email, role) ==
    [pc |-> "done", email |-> email, role |-> role, status |-> 201,
     error |-> "", token |-> r, created |-> TRUE, after201 |-> FALSE]

CompanyA == [id |-> 1, email |-> "a@x.io", role |-> "company"]
CompanyB == [id |-> 2, email |-> "b@x.io", role |-> "company"]

NewJob(u) == [company |-> u.id, quests |-> <<>>]

InitConfig ==
    /\ users = {CompanyA, CompanyB}
    /\ reg = [r \in Reqs |-> CASE r = 1 -> Registered(1, "a@x.io", "company")
                               [] r = 2 -> Registered(2, "b@x.io", "company")
                               [] OTHER -> IdleReq]
    /\ jobs \in {<<NewJob(CompanyA)>>, <<NewJob(CompanyA), NewJob(CompanyB)>>}
    /\ resp = NoResp

ConfigTopics == {"Age", "Unknown Topic", "constructor"}

BodiesTopics ==
    {a @@ b @@ c @@ d :
        a \in Opt("testId", {"t1"}), b \in Opt("name", {"Aptitude"}),
        c \in Opt("topics", SeqsUpTo(ConfigTopics, MaxTopics)),
        d \in Opt("questionsPerTopic", {MaxQuota})}

BodiesDefaults ==
    {a @@ b @@ c @@ d @@ e @@ f @@ g :
        a \in Req("testId", {"t2"}), b \in Req("name", {"Aptitude"}),
        c \in Req("topics", {<<"Age">>}), d \in Req("questionsPerTopic", {1}),
        e \in Opt("duration", {0, 30}),
        f \in Opt("passingScore", {0, 100}),
        g \in Opt("isActive", {TRUE, FALSE})}

NextConfig ==
    \E u \in users, body \in BodiesTopics \cup BodiesDefaults : CreateTestConfig(u, body)

SpecConfig == InitConfig /\ [][NextConfig]_vars

(***************************************************************************)
(* SpecSession: one startSession request against job documents whose quest *)
(* subdocuments expose testId and isActive, the fields lines 217-218 read. *)
(* A request changes no document, so every request is the first of some    *)
(* behaviour.  The stores hold no job, one job with one configuration, or  *)
(* two configurations (unique or duplicate testId, active or not) in one   *)
(* job or in two.  These are the documents the handler is written for;     *)
(* castQuest yields none of them, and Spec covers what the routes store.   *)
(***************************************************************************)
Candidate == [id |-> 1, email |-> "a@x.io", role |-> "candidate"]

QuestDoc(t, a, tp, q) ==
    [testId |-> t, isActive |-> a, topics |-> tp, questionsPerTopic |-> q,
     duration |-> DefaultDuration]

Entry(doc) == [doc |-> doc, sent |-> doc]

\* "Age", "Calendars", "Age", ... : n topics
TopicList(n) == [i \in 1..n |-> IF i % 2 = 1 THEN "Age" ELSE "Calendars"]

SingleDocs ==
    {QuestDoc("t1", a, TopicList(n), q) : a \in BOOLEAN, n \in 0..MaxTopics,
                                          q \in 1..MaxQuota}

PairDocs == {QuestDoc(t, a, <<"Age">>, 1) : t \in TestIds, a \in BOOLEAN}

SessionStores ==
    {<<>>}
    \cup {<<[company |-> 2, quests |-> <<Entry(d)>>]>> : d \in SingleDocs}
    \cup {<<[company |-> 2, quests |-> <<Entry(d), Entry(e)>>]>> :
            d \in PairDocs, e \in PairDocs}
    \cup {<<[company |-> 2, quests |-> <<Entry(d)>>],
            [company |-> 3, quests |-> <<Entry(e)>>]>> : d \in PairDocs, e \in PairDocs}

InitSession ==
    /\ users = {Candidate}
    /\ reg = [r \in Reqs |-> IF r = 1 THEN Registered(1, "a@x.io", "candidate")
                             ELSE IdleReq]
    /\ jobs \in SessionStores
    /\ resp = NoResp

\* The number of fetches a request for testId gets to: one per topic of the
\* active configuration it locates
FetchCount(testId) ==
    LET j == FindJob(jobs, testId)
        i == IF j = 0 THEN 0 ELSE FindQuest(jobs[j], testId)
    IN IF i = 0 \/ ~IsActive(jobs[j].quests[i].doc) THEN 0
       ELSE Len(jobs[j].quests[i].doc.topics)

NextSession ==
    /\ resp = NoResp
    /\ \E u \in users, t \in TestIds :
          \E outs \in [1..FetchCount(t) -> Outcomes] : StartSession(u, t, outs)

SpecSession == InitSession /\ [][NextSession]_vars

(***************************************************************************)
(* Properties.                                                             *)
(***************************************************************************)
Done(r) == reg[r].pc = "done"

\* C1: a register request for an email that starts (does its lookup) after
\* an earlier register request for that email was answered 201 is answered
\* 400 'Email already registered', creates no user record and gets no token.
C1_SecondRegisterRejected ==
    \A r \in Reqs :
        (reg[r].pc # "idle" /\ reg[r].after201) =>
            /\ Done(r)
            /\ reg[r].status = 400
            /\ reg[r].error = "Email already registered"
            /\ ~reg[r].created
            /\ reg[r].token = 0
            /\ \A u \in users : u.id # r

C1_Witness ==
    \E r1, r2 \in Reqs :
        /\ r1 # r2 /\ Done(r1) /\ Done(r2)
        /\ reg[r1].email = reg[r2].email
        /\ reg[r1].status = 201
        /\ reg[r2].after201

\* C10: of two register requests with the same email that are in flight at
\* the same time (neither started after a 201 for that email), at most one
\* is answered 201, the other is answered 400, and at most one user record
\* carries the email.
C10_RaceLoserGets400 ==
    \A r1, r2 \in Reqs :
        (/\ r1 # r2 /\ Done(r1) /\ Done(r2)
         /\ reg[r1].email = reg[r2].email
         /\ ~reg[r1].after201 /\ ~reg[r2].after201
         /\ reg[r1].status = 201) =>
            /\ reg[r2].status = 400
            /\ Cardinality({u \in users : u.email = reg[r1].email}) <= 1

\* Some topic of the request body is not one of the 8 known names
HasUnknownTopic(body) ==
    \E i \in 1..Len(body.topics) : body.topics[i] \notin KnownTopics

\* C2: a createTestConfig request whose topics hold a name that is not one
\* of the 8 known topic names is answered 400 with an error naming such a
\* topic, and every topic of every stored configuration is a known topic.
C2_UnknownTopicRejected ==
    /\ (/\ resp.op = "createTestConfig"
        /\ ~MissingRequired(resp.body)
        /\ HasUnknownTopic(resp.body)) =>
            /\ resp.status = 400
            /\ resp.error = "Invalid topic"
            /\ resp.topic \notin KnownTopics
    /\ \A e \in AllQuests(jobs) :
          \A i \in 1..Len(e.doc.topics) : e.doc.topics[i] \in KnownTopics

\* The places of the stored configurations
QuestPlaces ==
    {p \in (1..Len(jobs)) \X (1..MaxConfigs) : p[2] <= Len(jobs[p[1]].quests)}

\* C8: no two stored test configurations, across the quest lists of all
\* jobs, were pushed with the same testId.
C8_TestIdUnique ==
    \A p, q \in QuestPlaces :
        p # q => jobs[p[1]].quests[p[2]].sent.testId # jobs[q[1]].quests[q[2]].sent.testId

\* C9: an accepted createTestConfig request builds duration = 45 exactly
\* when it supplies no duration and the supplied duration otherwise,
\* passingScore = 60 exactly when it supplies none and the supplied one
\* otherwise, isActive = false exactly when it supplies isActive = false.
C9_DefaultsOnlyWhenAbsent ==
    (resp.op = "createTestConfig" /\ resp.status = 200) =>
        LET body == resp.body
            cfg == resp.cfg
        IN /\ Has(body, "duration") => cfg.duration = body.duration
           /\ ~Has(body, "duration") <=> cfg.duration = DefaultDuration
           /\ Has(body, "passingScore") => cfg.passingScore = body.passingScore
           /\ ~Has(body, "passingScore") <=> cfg.passingScore = DefaultPassingScore
           /\ cfg.isActive <=> ~(Has(body, "isActive") /\ body.isActive = FALSE)

\* The i-th fetch of the request answers with a pool of at least n questions
PoolHolds(outs, i, n) == outs[i].ok /\ Len(questions(outs[i].data)) >= n

\* C5: once a configuration with testId t, valid topics T, quota q and
\* isActive not false is attached to a job, a startSession for t by a
\* candidate that meets pools of at least q questions is answered 200 with
\* the topics T in order and totalQuestions = q * |T|.
C5_EndToEnd ==
    \A e \in AllQuests(jobs) :
        LET cfg == e.sent
        IN (/\ resp.op = "start"
            /\ resp.testId = cfg.testId
            /\ \E u \in users : u.id = resp.userId /\ u.role = "candidate"
            /\ cfg.isActive
            /\ \A i \in 1..Len(cfg.topics) :
                  /\ cfg.topics[i] \in KnownTopics
                  /\ PoolHolds(resp.offered, i, cfg.questionsPerTopic)
            /\ \A o \in AllQuests(jobs) : o.sent.testId = cfg.testId => o = e) =>
               /\ resp.status = 200
               /\ Len(resp.topics) = Len(cfg.topics)
               /\ \A i \in 1..Len(cfg.topics) : resp.topics[i].name = cfg.topics[i]
               /\ resp.totalQuestions = cfg.questionsPerTopic * Len(cfg.topics)

\* The configuration a startSession for testId locates: the first matching
\* entry of the first job that has one; EmptyObj when no entry matches.
Located(testId) ==
    LET places == {p \in QuestPlaces :
                     LET d == jobs[p[1]].quests[p[2]].doc
                     IN Has(d, "testId") /\ d.testId = testId}
    IN IF places = {} THEN EmptyObj
       ELSE LET first == CHOOSE p \in places :
                           \A o \in places :
                              p[1] < o[1] \/ (p[1] = o[1] /\ p[2] <= o[2])
            IN jobs[first[1]].quests[first[2]].doc

NoPayload ==
    /\ ~Has(resp, "sessionId") /\ ~Has(resp, "topics")
    /\ ~Has(resp, "totalQuestions")

Shown == {"id", "question", "options", "topic"}

\* The upstream question a response question was made of: the same id, the
\* same options (none: empty) and the same question text (none: empty)
MadeOf(shown, q) ==
    /\ Has(shown, "id") <=> Has(q, "id")
    /\ Has(q, "id") => shown.id = q.id
    /\ shown.options = (IF Has(q, "options") THEN q.options ELSE <<>>)
    /\ shown.question = (IF Has(q, "question") THEN q.question ELSE "")

Failing(doc, outs) == {i \in 1..Len(doc.topics) : ~outs[i].ok}

Stripped(out) ==
    IF ~out.ok THEN out
    ELSE LET strip(q) == [f \in DOMAIN q \cap {"id", "question", "options"} |-> q[f]]
         IN [out EXCEPT !.data =
               IF out.data.isArray
               THEN [isArray |-> TRUE,
                     items |-> [i \in 1..Len(out.data.items) |-> strip(out.data.items[i])]]
               ELSE [isArray |-> FALSE, item |-> strip(out.data.item)]]

====
